---- MODULE Spec2Model ----
(***************************************************************************)
(* A model of features::Feature (libraries/features/src/Feature.cpp): the  *)
(* feature graph with its dirty flags and cached outputs, the static       *)
(* instance counter and the static map of deserialize functions.           *)
(*                                                                         *)
(* A feature is named by its position in construction order (1, 2, ...);   *)
(* every member of Feature is a sequence indexed by that position.  A      *)
(* std::string is a sequence of one-character strings, so that             *)
(* concatenation, trimming and splitting are computed and not assumed.     *)
(*                                                                         *)
(* The operations are actions over the program's variables.  What a call   *)
(* hands back to its caller (the value returned, the number of             *)
(* ComputeOutput() invocations it made) is a parameter of the action; the  *)
(* specifications that need it record it in the probe variables.           *)
(***************************************************************************)
EXTENDS Integers, Sequences, FiniteSets

VARIABLES
    _instanceCount,   \* static int Feature::_instanceCount
    _createTypeMap,   \* static std::unordered_map<std::string, DeserializeFunction>
    _id,              \* _id of every constructed feature
    _class,           \* the dynamic type of every feature: what FeatureType() returns
    _numColumns,      \* size_t _numColumns, set by the constructor of the subclass
    _isDirty,         \* mutable bool _isDirty
    _cachedValue,     \* mutable std::vector<double> _cachedValue
    _inputFeatures,   \* std::vector<std::shared_ptr<Feature>> _inputFeatures
    _dependents,      \* std::vector<std::shared_ptr<Feature>> _dependents
    pc,               \* "run"; "diverged" once a call recurses without end; "aborted"
                      \* or "undefined" once a call comes to a null dependent
    destroyed,        \* the features whose destructor has run
    rootRefs,         \* the caller's std::shared_ptr<Feature> variables, one per feature
    deserializedFeatureMap, \* the caller's Feature::FeatureMap, passed by reference
    outStream,        \* the caller's std::ostream, the characters written so far
    written,          \* the caller's position in the graph: features serialized so far
    lineNo,           \* the caller's position in the stream: lines decoded so far
    decoded,          \* the features the caller's decode loop has got back, in order
    phase,            \* the caller: "build", "write", "read", "done" or "failed"
    call,             \* probe: the last call, <<operation, feature>>
    computeCalls,     \* probe: ComputeOutput() invocations made by the last call
    ret,              \* probe: <<v>> when the last call returned v, <<>> otherwise
    served,           \* history: what GetOutput() last returned for each feature
    thrown,           \* probe: what the last call threw, <<>> when it returned
    invoked,          \* probe: the deserialize functions the last call invoked
    registered,       \* history: the tags passed to RegisterDeserializeFunction
    _buffer,          \* std::stringstream _buffer of the IndentedTextWriter: the strings
                      \* inserted so far, one entry per operator<<
    _indentCount,     \* _indentCount of the IndentedTextWriter
    _needsIndent,     \* bool _needsIndent of the IndentedTextWriter
    lineCalls         \* history: the Write and WriteRaw calls since the last
                      \* WriteNewLine, and whether there was a WriteNewLine

featureVars == <<_id, _class, _numColumns, _isDirty, _cachedValue, _inputFeatures, _dependents>>
programVars == <<_instanceCount, _createTypeMap, featureVars, pc, destroyed>>
callerVars == <<deserializedFeatureMap, outStream, written, lineNo, decoded, phase, rootRefs>>
probeVars == <<call, computeCalls, ret, served>>
codecVars == <<callerVars, thrown, invoked, registered>>
writerVars == <<_buffer, _indentCount, _needsIndent, lineCalls>>
vars == <<programVars, probeVars, codecVars, writerVars>>

(***************************************************************************)
(* Bounds of the model.                                                    *)
(***************************************************************************)
MaxFeatures == 3      \* features constructed in a graph run
MaxDependents == 2    \* AddDependent calls in a graph run
CacheFeatures == 2    \* features constructed in a cache run
CacheDependents == 1  \* AddDependent calls in a cache run
RegistryFeatures == 2 \* features decoded in a registry run
CodecFeatures == 3    \* features of the graph a codec run serializes
MaxInputs == 2        \* inputs given to a constructor in a codec run
IdFeatures == 3       \* features constructed in an id run
OwnerFeatures == 3    \* features made in an ownership run
OwnerEdges == 2       \* inputs and dependents given in an ownership run
WidthFeatures == 2    \* features constructed in a width run
WarmupFeatures == 3   \* features constructed in a warmup run
WarmupInputs == 2     \* inputs given to a constructor in a warmup run
FindFeatures == 3     \* features constructed in a search run
FindInputs == 2       \* inputs given to a constructor in a search run
DescribeFeatures == 3 \* features constructed in a description run
DescribeInputs == 2   \* inputs given in a description run
BuildFeatures == 2    \* features constructed in a construction run
BuildEdges == 2       \* inputs and dependents given in a construction run
MirrorFeatures == 3   \* features constructed in a mirrored run
ClearFeatures == 2    \* features constructed in a mirrored run with SetDirtyFlag(false)
TermFeatures == 2     \* features constructed in a run asking whether calls return
TermEdges == 2        \* inputs and dependents given in such a run
NullFeatures == 2     \* features constructed in a run that may pass nullptr
NullEdges == 2        \* inputs and dependents given in such a run
WriterIndent == 2     \* greatest indent count, of the writer and of a WriteRaw call
WriterChunks == 4     \* strings in the buffer after which the caller stops writing

\* The vectors a ComputeOutput() override may return (the empty vector included).
ComputeResults == {<<>>, <<1>>}

\* FeatureType() of the subclasses the runs construct, and the ids their
\* callers give to the constructors that take one.
GraphTypes == {<<"T">>}
CacheIds == {<<"x">>}

Features == 1..Len(_id)

\* the empty std::shared_ptr<Feature>, which names no feature
nullptr == 0

(***************************************************************************)
(* std::unordered_map, as a function on the set of its keys.               *)
(***************************************************************************)
EmptyMap == [k \in {} |-> <<>>]

MapPut(map, key, value) ==
    [k \in DOMAIN map \cup {key} |-> IF k = key THEN value ELSE map[k]]

(***************************************************************************)
(* std::to_string(int) for a non-negative int.                             *)
(***************************************************************************)
Digit(d) == <<"0", "1", "2", "3", "4", "5", "6", "7", "8", "9">>[d + 1]

RECURSIVE to_string(_)
to_string(n) == IF n < 10 THEN <<Digit(n)>>
                ELSE to_string(n \div 10) \o <<Digit(n % 10)>>

\* "f_" + to_string(_instanceId)
AutoId(instanceId) == <<"f", "_">> \o to_string(instanceId)

(***************************************************************************)
(* Construction.  Every constructor sets _isDirty(true) and bumps the      *)
(* static counter; only the default one derives the id from it.            *)
(***************************************************************************)
\* the output width the constructor of a subclass declares: 2 for the class "V",
\* 1 for the others
Columns(cls) == IF cls = <<"V">> THEN 2 ELSE 1

Construct(id, cls, inputs) ==
    /\ _id' = Append(_id, id)
    /\ _class' = Append(_class, cls)
    /\ _numColumns' = Append(_numColumns, Columns(cls))
    /\ _isDirty' = Append(_isDirty, TRUE)
    /\ _cachedValue' = Append(_cachedValue, <<>>)
    /\ _inputFeatures' = Append(_inputFeatures, inputs)
    /\ _dependents' = Append(_dependents, <<>>)
    /\ _instanceCount' = _instanceCount + 1
    /\ UNCHANGED <<_createTypeMap, pc, destroyed>>

\* Feature::Feature()
FeatureCtor(cls) ==
    /\ pc = "run"
    /\ Construct(AutoId(_instanceCount), cls, <<>>)

\* Feature::Feature(std::string id)
FeatureCtorId(id, cls) ==
    /\ pc = "run"
    /\ Construct(id, cls, <<>>)

\* Feature::Feature(const std::vector<std::shared_ptr<Feature>>& inputs)
FeatureCtorInputs(inputs, cls) ==
    /\ pc = "run"
    /\ Construct(AutoId(_instanceCount), cls, inputs)

\* Feature::Feature(std::string id, const std::vector<std::shared_ptr<Feature>>& inputs)
FeatureCtorIdInputs(id, inputs, cls) ==
    /\ pc = "run"
    /\ Construct(id, cls, inputs)

\* size_t Feature::NumColumns() const
NumColumns(n) == _numColumns[n]

\* std::string Feature::Id() const
Id(n) == _id[n]

(***************************************************************************)
(* Dirty flags.                                                            *)
(***************************************************************************)
\* bool Feature::IsDirty() const
IsDirty(n) == _isDirty[n]

\* HasOutput() asking for a value in the cache as well
HasOutputIfCached(n) == ~IsDirty(n) /\ Len(_cachedValue[n]) # 0

\* bool Feature::HasOutput() const
HasOutput(n) == ~IsDirty(n)

\* a call of HasOutput() on feature n, which returns `out`
HasOutputCall(n, out) ==
    /\ pc = "run"
    /\ n \in Features
    /\ out = HasOutput(n)
    /\ UNCHANGED programVars

\* A call chain deeper than the number of features has a feature on it twice:
\* the recursion then never returns.
Returned(flags) == [ok |-> TRUE, flags |-> flags, null |-> FALSE]
Diverged(flags) == [ok |-> FALSE, flags |-> flags, null |-> FALSE]

\* The call came to an entry of _dependents that is nullptr: assert(f != nullptr)
\* fails, and where assert is compiled out (NDEBUG) the call through the null
\* pointer has undefined behaviour.
NullDependent(flags) == [ok |-> FALSE, flags |-> flags, null |-> TRUE]

\* how a call of SetDirtyFlag or Reset with the result r leaves the program
Outcomes(r) ==
    IF r.ok THEN {"run"}
    ELSE IF r.null THEN {"aborted", "undefined"}
    ELSE {"diverged"}

RECURSIVE SetDirtyFlag(_, _, _, _)
RECURSIVE CascadeDirty(_, _, _, _)
RECURSIVE Reset(_, _, _)
RECURSIVE ResetDependents(_, _, _, _)

\* SetDirtyFlag with the cascade run for either value of the flag
SetDirtyFlagCascadesAny(flags, n, dirty, depth) ==
    IF depth > Len(flags) THEN Diverged(flags)
    ELSE LET own == [flags EXCEPT ![n] = dirty]
             RECURSIVE Each(_, _)
             Each(fl, i) ==
                 IF i > Len(_dependents[n]) THEN Returned(fl)
                 ELSE LET r == SetDirtyFlag(fl, _dependents[n][i], dirty, depth + 1)
                      IN IF r.ok THEN Each(r.flags, i + 1) ELSE r
         IN Each(own, 1)

\* SetDirtyFlag setting the flag of the feature and no other
SetDirtyFlagOwnOnly(flags, n, dirty, depth) ==
    IF depth > Len(flags) THEN Diverged(flags)
    ELSE Returned([flags EXCEPT ![n] = dirty])

\* SetDirtyFlag returning at once when the flag already has the value
SetDirtyFlagStopsAtDirty(flags, n, dirty, depth) ==
    IF depth > Len(flags) THEN Diverged(flags)
    ELSE IF flags[n] = dirty THEN Returned(flags)
    ELSE LET own == [flags EXCEPT ![n] = dirty]
         IN IF dirty THEN CascadeDirty(own, _dependents[n], 1, depth)
            ELSE Returned(own)

\* void Feature::SetDirtyFlag(bool dirty) const, on feature n, from the flags `flags`
SetDirtyFlag(flags, n, dirty, depth) ==
    IF depth > Len(flags) THEN Diverged(flags)
    ELSE LET own == [flags EXCEPT ![n] = dirty]
         IN IF dirty THEN CascadeDirty(own, _dependents[n], 1, depth)
            ELSE Returned(own)

\* the cascade marking the direct dependents only
CascadeDirtyShallow(flags, deps, i, depth) ==
    Returned([m \in DOMAIN flags |->
                 flags[m] \/ \E k \in i..Len(deps) : deps[k] = m])

\* for (auto& f : _dependents) f->SetDirtyFlag(true);
CascadeDirty(flags, deps, i, depth) ==
    IF i > Len(deps) THEN Returned(flags)
    ELSE IF deps[i] = nullptr THEN NullDependent(flags)
    ELSE LET r == SetDirtyFlag(flags, deps[i], TRUE, depth + 1)
         IN IF r.ok THEN CascadeDirty(r.flags, deps, i + 1, depth) ELSE r

\* Reset marking the feature itself only
ResetOwnOnly(flags, n, depth) == Returned([flags EXCEPT ![n] = TRUE])

\* void Feature::Reset(), on feature n
Reset(flags, n, depth) ==
    IF depth > Len(flags) THEN Diverged(flags)
    ELSE LET r == SetDirtyFlag(flags, n, TRUE, depth)
         IN IF r.ok THEN ResetDependents(r.flags, _dependents[n], 1, depth) ELSE r

\* for (auto& f : _dependents) f->Reset();
ResetDependents(flags, deps, i, depth) ==
    IF i > Len(deps) THEN Returned(flags)
    ELSE IF deps[i] = nullptr THEN NullDependent(flags)
    ELSE LET r == Reset(flags, deps[i], depth + 1)
         IN IF r.ok THEN ResetDependents(r.flags, deps, i + 1, depth) ELSE r

\* a call of SetDirtyFlag(dirty) on feature n
SetDirtyFlagCall(n, dirty) ==
    /\ pc = "run"
    /\ n \in Features
    /\ UNCHANGED <<_instanceCount, _createTypeMap, _id, _class, _numColumns, _cachedValue,
                   _inputFeatures, _dependents, destroyed>>
    /\ LET r == SetDirtyFlag(_isDirty, n, dirty, 1)
       IN /\ _isDirty' = r.flags
          /\ pc' \in Outcomes(r)

\* a call of Reset() on feature n
ResetCall(n) ==
    /\ pc = "run"
    /\ n \in Features
    /\ UNCHANGED <<_instanceCount, _createTypeMap, _id, _class, _numColumns, _cachedValue,
                   _inputFeatures, _dependents, destroyed>>
    /\ LET r == Reset(_isDirty, n, 1)
       IN /\ _isDirty' = r.flags
          /\ pc' \in Outcomes(r)

(***************************************************************************)
(* std::vector<double> Feature::GetOutput() const, on feature n: the call  *)
(* makes `calls` invocations of ComputeOutput() and returns `out`.         *)
(* ComputeOutput() is pure virtual: it may return any vector.              *)
(***************************************************************************)
\* GetOutput leaving the dirty flag as it was
GetOutputKeepsDirty(n, calls, out) ==
    /\ pc = "run"
    /\ n \in Features
    /\ IF IsDirty(n) \/ Len(_cachedValue[n]) = 0
       THEN /\ \E v \in ComputeResults :
                 _cachedValue' = [_cachedValue EXCEPT ![n] = v]
            /\ calls = 1
       ELSE /\ calls = 0
            /\ UNCHANGED _cachedValue
    /\ out = _cachedValue'[n]
    /\ UNCHANGED <<_instanceCount, _createTypeMap, _id, _class, _numColumns, _isDirty,
                   _inputFeatures, _dependents, pc, destroyed>>

\* GetOutput pushing the invalidation to the dependents after a recompute
GetOutputInvalidatesDependents(n, calls, out) ==
    /\ pc = "run"
    /\ n \in Features
    /\ IF IsDirty(n) \/ Len(_cachedValue[n]) = 0
       THEN /\ \E v \in ComputeResults :
                 _cachedValue' = [_cachedValue EXCEPT ![n] = v]
            /\ _isDirty' = [m \in DOMAIN _isDirty |->
                               IF m = n THEN FALSE
                               ELSE _isDirty[m] \/ \E k \in 1..Len(_dependents[n]) :
                                                      _dependents[n][k] = m]
            /\ calls = 1
       ELSE /\ calls = 0
            /\ UNCHANGED <<_cachedValue, _isDirty>>
    /\ out = _cachedValue'[n]
    /\ UNCHANGED <<_instanceCount, _createTypeMap, _id, _class, _numColumns, _inputFeatures,
                   _dependents, pc, destroyed>>

GetOutput(n, calls, out) ==
    /\ pc = "run"
    /\ n \in Features
    /\ IF IsDirty(n) \/ Len(_cachedValue[n]) = 0
       THEN /\ \E v \in ComputeResults :
                 _cachedValue' = [_cachedValue EXCEPT ![n] = v]
            /\ _isDirty' = [_isDirty EXCEPT ![n] = FALSE]
            /\ calls = 1
       ELSE /\ calls = 0
            /\ UNCHANGED <<_cachedValue, _isDirty>>
    /\ out = _cachedValue'[n]
    /\ UNCHANGED <<_instanceCount, _createTypeMap, _id, _class, _numColumns, _inputFeatures,
                   _dependents, pc, destroyed>>

(***************************************************************************)
(* GetOutput() on a graph whose ComputeOutput() overrides read their       *)
(* inputs: ComputeOutput() of a feature first calls GetOutput() on every   *)
(* input, in order, and then returns the vector `results` holds for the    *)
(* feature.  The state handed through the calls is a record of the flags,  *)
(* the cached values and the trace of the GetOutput() calls made so far,   *)
(* each <<feature, "computed">> or <<feature, "cached">>.  The recursion   *)
(* ends on an acyclic graph of inputs.                                     *)
(***************************************************************************)
RECURSIVE GetOutputIn(_, _, _)
RECURSIVE InputOutputs(_, _, _, _)

\* GetOutput() on the inputs from entry i on
InputOutputs(st, inputs, i, results) ==
    IF i > Len(inputs) THEN st
    ELSE InputOutputs(GetOutputIn(st, inputs[i], results), inputs, i + 1, results)

\* virtual std::vector<double> ComputeOutput() const, on feature n
ComputeOutput(st, n, results) ==
    [st |-> InputOutputs(st, _inputFeatures[n], 1, results), value |-> results[n]]

\* std::vector<double> Feature::GetOutput() const, on feature n in state st
GetOutputIn(st, n, results) ==
    IF st.flags[n] \/ Len(st.cache[n]) = 0
    THEN LET c == ComputeOutput([st EXCEPT !.trace = Append(@, <<n, "computed">>)],
                                n, results)
         IN [flags |-> [c.st.flags EXCEPT ![n] = FALSE],
             cache |-> [c.st.cache EXCEPT ![n] = c.value],
             trace |-> c.st.trace]
    ELSE [st EXCEPT !.trace = Append(@, <<n, "cached">>)]

\* GetOutput() on feature n in the state of the program, no call made yet
GetOutputOf(n, results) ==
    GetOutputIn([flags |-> _isDirty, cache |-> _cachedValue, trace |-> <<>>], n, results)

\* a call of GetOutput() on feature n
GetOutputCall(n, results) ==
    /\ pc = "run"
    /\ n \in Features
    /\ LET r == GetOutputOf(n, results)
       IN _isDirty' = r.flags /\ _cachedValue' = r.cache
    /\ UNCHANGED <<_instanceCount, _createTypeMap, _id, _class, _numColumns,
                   _inputFeatures, _dependents, pc, destroyed>>

(***************************************************************************)
(* void Feature::AddDependent(std::shared_ptr<Feature> f), on feature n.   *)
(***************************************************************************)
AddDependent(n, f) ==
    /\ pc = "run"
    /\ n \in Features
    /\ f \in Features \cup {nullptr}
    /\ _dependents' = [_dependents EXCEPT ![n] = Append(@, f)]
    /\ UNCHANGED <<_instanceCount, _createTypeMap, _id, _class, _numColumns, _isDirty,
                   _cachedValue, _inputFeatures, pc, destroyed>>

\* the number of entries of all _dependents lists
NumDependents ==
    LET RECURSIVE Sum(_)
        Sum(k) == IF k = 0 THEN 0 ELSE Len(_dependents[k]) + Sum(k - 1)
    IN Sum(Len(_dependents))

(***************************************************************************)
(* void Feature::AddInputFeature(std::shared_ptr<Feature> inputFeature),   *)
(* on feature n.                                                           *)
(***************************************************************************)
\* AddInputFeature registering the feature as a dependent of its new input
AddInputFeaturePaired(n, inputFeature) ==
    /\ pc = "run"
    /\ n \in Features
    /\ inputFeature \in Features
    /\ _inputFeatures' = [_inputFeatures EXCEPT ![n] = Append(@, inputFeature)]
    /\ _dependents' = [_dependents EXCEPT ![inputFeature] = Append(@, n)]
    /\ UNCHANGED <<_instanceCount, _createTypeMap, _id, _class, _numColumns, _isDirty,
                   _cachedValue, pc, destroyed>>

AddInputFeature(n, inputFeature) ==
    /\ pc = "run"
    /\ n \in Features
    /\ inputFeature \in Features \cup {nullptr}
    /\ _inputFeatures' = [_inputFeatures EXCEPT ![n] = Append(@, inputFeature)]
    /\ UNCHANGED <<_instanceCount, _createTypeMap, _id, _class, _numColumns, _isDirty,
                   _cachedValue, _dependents, pc, destroyed>>

(***************************************************************************)
(* size_t Feature::WarmupTime() const.  The method is virtual: the loop of *)
(* the base class calls inputFeature->WarmupTime(), which runs the         *)
(* override of the input's class when there is one.                        *)
(***************************************************************************)
\* the classes "W1" and "W2" override WarmupTime() and return 1 and 2
WarmupOverride(cls) ==
    IF cls = <<"W", "1">> THEN <<1>>
    ELSE IF cls = <<"W", "2">> THEN <<2>>
    ELSE <<>>

\* std::max
Max(a, b) == IF a < b THEN b ELSE a

RECURSIVE WarmupTime(_)
RECURSIVE WarmupLoop(_, _, _)

\* inputFeature->WarmupTime(), on feature n
VirtualWarmupTime(n) ==
    IF WarmupOverride(_class[n]) # <<>> THEN WarmupOverride(_class[n])[1] ELSE WarmupTime(n)

\* the loop keeping the time of the input it saw last
WarmupLoopKeepsLast(inputs, i, maxTime) ==
    IF i > Len(inputs) THEN maxTime
    ELSE WarmupLoop(inputs, i + 1, VirtualWarmupTime(inputs[i]))

\* for (const auto& inputFeature : _inputFeatures), from entry i on
WarmupLoop(inputs, i, maxTime) ==
    IF i > Len(inputs) THEN maxTime
    ELSE WarmupLoop(inputs, i + 1, Max(maxTime, VirtualWarmupTime(inputs[i])))

\* size_t Feature::WarmupTime() const, of the base class, on feature n
WarmupTime(n) == WarmupLoop(_inputFeatures[n], 1, 0)

\* a call of WarmupTime() on feature n, which returns `out`
WarmupTimeCall(n, out) ==
    /\ pc = "run"
    /\ n \in Features
    /\ out = VirtualWarmupTime(n)
    /\ UNCHANGED programVars

(***************************************************************************)
(* std::shared_ptr<InputFeature> Feature::FindInputFeature() const.  The   *)
(* result is <<f>> for the feature f found and <<>> for nullptr.           *)
(***************************************************************************)
\* std::dynamic_pointer_cast<InputFeature>(inputFeature) != nullptr: the class "I"
\* is InputFeature
IsInputFeature(n) == _class[n] = <<"I">>

RECURSIVE FindInputFeature(_)
RECURSIVE FindLoop(_, _)

\* the loop going on to the next input when the search below an input finds nothing
FindLoopSearchesAll(inputs, i) ==
    IF i > Len(inputs) THEN <<>>
    ELSE IF IsInputFeature(inputs[i]) THEN <<inputs[i]>>
    ELSE IF FindInputFeature(inputs[i]) # <<>> THEN FindInputFeature(inputs[i])
    ELSE FindLoop(inputs, i + 1)

\* for (const auto& inputFeature : _inputFeatures), from entry i on: both branches
\* of the body return
FindLoop(inputs, i) ==
    IF i > Len(inputs) THEN <<>>
    ELSE IF IsInputFeature(inputs[i]) THEN <<inputs[i]>>
    ELSE FindInputFeature(inputs[i])

FindInputFeature(n) == FindLoop(_inputFeatures[n], 1)

\* a call of FindInputFeature() on feature n, which returns `out`
FindInputFeatureCall(n, out) ==
    /\ pc = "run"
    /\ n \in Features
    /\ out = FindInputFeature(n)
    /\ UNCHANGED programVars

(***************************************************************************)
(* WarmupTime() and FindInputFeature() with the depth of the call chain    *)
(* counted, as SetDirtyFlag and Reset count it: _inputFeatures can be made *)
(* cyclic through AddInputFeature, and a chain deeper than the number of   *)
(* features has a feature on it twice and never returns.  The result is    *)
(* [ok |-> TRUE, value |-> v] when the call returns v.                     *)
(***************************************************************************)
Value(v) == [ok |-> TRUE, value |-> v]
NoReturn == [ok |-> FALSE, value |-> <<>>]

RECURSIVE WarmupTimeAt(_, _)
RECURSIVE WarmupLoopAt(_, _, _, _)

\* inputFeature->WarmupTime(), on feature n, at depth `depth` of the call chain
VirtualWarmupTimeAt(n, depth) ==
    IF WarmupOverride(_class[n]) # <<>> THEN Value(WarmupOverride(_class[n])[1])
    ELSE WarmupTimeAt(n, depth)

\* for (const auto& inputFeature : _inputFeatures), from entry i on
WarmupLoopAt(inputs, i, maxTime, depth) ==
    IF i > Len(inputs) THEN Value(maxTime)
    ELSE LET r == VirtualWarmupTimeAt(inputs[i], depth + 1)
         IN IF r.ok THEN WarmupLoopAt(inputs, i + 1, Max(maxTime, r.value), depth)
            ELSE r

\* size_t Feature::WarmupTime() const, of the base class, on feature n
WarmupTimeAt(n, depth) ==
    IF depth > Len(_id) THEN NoReturn
    ELSE WarmupLoopAt(_inputFeatures[n], 1, 0, depth)

RECURSIVE FindInputFeatureAt(_, _)

\* for (const auto& inputFeature : _inputFeatures), from entry i on
FindLoopAt(inputs, i, depth) ==
    IF i > Len(inputs) THEN Value(<<>>)
    ELSE IF IsInputFeature(inputs[i]) THEN Value(<<inputs[i]>>)
    ELSE FindInputFeatureAt(inputs[i], depth + 1)

\* std::shared_ptr<InputFeature> Feature::FindInputFeature() const, on feature n
FindInputFeatureAt(n, depth) ==
    IF depth > Len(_id) THEN NoReturn
    ELSE FindLoopAt(_inputFeatures[n], 1, depth)

\* a call of WarmupTime() or FindInputFeature() that returns r.value, or never returns
ConstCall(r) ==
    /\ pc = "run"
    /\ pc' = IF r.ok THEN "run" ELSE "diverged"
    /\ UNCHANGED <<_instanceCount, _createTypeMap, featureVars, destroyed>>

(***************************************************************************)
(* The description of a feature and its serialization.                     *)
(***************************************************************************)
\* virtual std::string FeatureType() const: the tag of the feature's class
FeatureType(n) == _class[n]

\* the ids of the inputs of n, in the order of _inputFeatures
InputIds(n) == [i \in 1..Len(_inputFeatures[n]) |-> Id(_inputFeatures[n][i])]

\* virtual void AddToDescription(std::vector<std::string>&) const: the class "D"
\* adds one field of its own, the others add none
AddToDescription(n) == IF _class[n] = <<"D">> THEN <<<<"8">>>> ELSE <<>>

\* GetDescription() letting the subclass add its fields before the ids of the inputs
GetDescriptionFieldsFirst(n) == <<Id(n), FeatureType(n)>> \o AddToDescription(n) \o InputIds(n)

\* std::vector<std::string> Feature::GetDescription() const
GetDescription(n) == <<Id(n), FeatureType(n)>> \o InputIds(n) \o AddToDescription(n)

\* a call of GetDescription() on feature n, which returns `out`
GetDescriptionCall(n, out) ==
    /\ pc = "run"
    /\ n \in Features
    /\ out = GetDescription(n)
    /\ UNCHANGED programVars

\* the characters Serialize writes for the tokens from position i on
RECURSIVE Written(_, _)
Written(tokens, i) ==
    IF i > Len(tokens) THEN <<"\n">>
    ELSE (IF i = 1 THEN <<>> ELSE <<"\t">>) \o tokens[i] \o Written(tokens, i + 1)

\* void Feature::Serialize(std::ostream& outStream) const, on feature n
Serialize(n) ==
    /\ n \in Features
    /\ outStream' = outStream \o Written(GetDescription(n), 1)
    /\ UNCHANGED programVars

(***************************************************************************)
(* The registry of deserialize functions.  A DeserializeFunction is named  *)
(* by the class whose features it creates; the empty std::function, which  *)
(* compares equal to nullptr, is NullFunction.                             *)
(***************************************************************************)
NullFunction == <<>>

\* std::vector<std::string> Feature::GetRegisteredTypes(): the keys of the map (the
\* order of the vector is that of the unordered_map, which is unspecified)
GetRegisteredTypes == DOMAIN _createTypeMap

\* void Feature::RegisterDeserializeFunction(std::string class_name, DeserializeFunction create_fn)
RegisterDeserializeFunction(class_name, create_fn) ==
    /\ _createTypeMap' = MapPut(_createTypeMap, class_name, create_fn)
    /\ UNCHANGED <<_instanceCount, featureVars, pc, destroyed>>

\* TrimString of StringUtil.h: the string without its leading and trailing whitespace
Whitespace == {" ", "\t", "\n", "\r"}

RECURSIVE TrimLeft(_)
TrimLeft(str) == IF str # <<>> /\ Head(str) \in Whitespace THEN TrimLeft(Tail(str)) ELSE str

RECURSIVE TrimRight(_)
TrimRight(str) ==
    IF str # <<>> /\ str[Len(str)] \in Whitespace
    THEN TrimRight(SubSeq(str, 1, Len(str) - 1))
    ELSE str

TrimString(str) == TrimRight(TrimLeft(str))

\* what a call threw
UnknownFeatureType(featureClass) ==
    <<"Error deserializing feature description: unknown feature type", featureClass>>
BadFunctionCall == <<"std::bad_function_call">>
UnresolvedInput(id) == <<"unresolved input", id>>

\* A deserialize function, called with the description and the feature map: the
\* tokens after the id and the type are ids of inputs, each of which must be in the
\* map; the function constructs a feature of its class with the id and these inputs.
InputTokens(description) == SubSeq(description, 3, Len(description))

Unresolved(description, map) ==
    {i \in 1..Len(InputTokens(description)) : InputTokens(description)[i] \notin DOMAIN map}

DeserializeFunction(create_fn, description, map) ==
    /\ invoked' = <<[fn |-> create_fn, description |-> description, map |-> map]>>
    /\ IF Unresolved(description, map) = {}
       THEN /\ FeatureCtorIdInputs(
                   description[1],
                   [i \in 1..Len(InputTokens(description)) |->
                       map[InputTokens(description)[i]]],
                   create_fn)
            /\ thrown' = <<>>
            /\ ret' = <<Len(_id) + 1>>
       ELSE /\ thrown' = UnresolvedInput(
                   InputTokens(description)[
                       CHOOSE i \in Unresolved(description, map) :
                           \A j \in Unresolved(description, map) : i <= j])
            /\ ret' = <<>>
            /\ UNCHANGED programVars

\* FromDescription calling the function it found without the test for nullptr
FromDescriptionNoCheck(description) ==
    LET featureClass == TrimString(description[2])
        createFunction == IF featureClass \in DOMAIN _createTypeMap
                          THEN _createTypeMap[featureClass]
                          ELSE NullFunction
    IN IF createFunction = NullFunction
       THEN /\ _createTypeMap' = MapPut(_createTypeMap, featureClass, NullFunction)
            /\ thrown' = BadFunctionCall
            /\ invoked' = <<>>
            /\ ret' = <<>>
            /\ UNCHANGED <<_instanceCount, featureVars, pc, destroyed>>
       ELSE DeserializeFunction(createFunction, description, deserializedFeatureMap)

\* FromDescription looking the function up under the type token as it is written
FromDescriptionNoTrim(description) ==
    LET featureClass == description[2]
        createFunction == IF featureClass \in DOMAIN _createTypeMap
                          THEN _createTypeMap[featureClass]
                          ELSE NullFunction
    IN IF createFunction = NullFunction
       THEN /\ _createTypeMap' = MapPut(_createTypeMap, featureClass, createFunction)
            /\ thrown' = UnknownFeatureType(featureClass)
            /\ invoked' = <<>>
            /\ ret' = <<>>
            /\ UNCHANGED <<_instanceCount, featureVars, pc, destroyed>>
       ELSE DeserializeFunction(createFunction, description, deserializedFeatureMap)

\* std::shared_ptr<Feature> Feature::FromDescription(const std::vector<std::string>&
\* description, Feature::FeatureMap& deserializedFeatureMap).  _createTypeMap[featureClass]
\* is std::unordered_map::operator[]: a key that is not in the map is inserted with
\* an empty function.
FromDescription(description) ==
    LET featureId == TrimString(description[1])
        featureClass == TrimString(description[2])
        createFunction == IF featureClass \in DOMAIN _createTypeMap
                          THEN _createTypeMap[featureClass]
                          ELSE NullFunction
    IN IF createFunction = NullFunction
       THEN /\ _createTypeMap' = MapPut(_createTypeMap, featureClass, createFunction)
            /\ thrown' = UnknownFeatureType(featureClass)
            /\ invoked' = <<>>
            /\ ret' = <<>>
            /\ UNCHANGED <<_instanceCount, featureVars, pc, destroyed>>
       ELSE DeserializeFunction(createFunction, description, deserializedFeatureMap)

(***************************************************************************)
(* The caller of the codec: it reads the stream line by line, splits each  *)
(* line on tabs, decodes it and adds the feature it gets to the map.       *)
(***************************************************************************)
\* the pieces of str between the occurrences of sep
RECURSIVE Split(_, _, _)
Split(str, sep, piece) ==
    IF str = <<>> THEN <<piece>>
    ELSE IF Head(str) = sep THEN <<piece>> \o Split(Tail(str), sep, <<>>)
    ELSE Split(Tail(str), sep, Append(piece, Head(str)))

\* the lines of a stream: every piece that a newline ends
Lines(stream) == LET pieces == Split(stream, "\n", <<>>)
                 IN SubSeq(pieces, 1, Len(pieces) - 1)

Tokens(line) == Split(line, "\t", <<>>)

\* one turn of the decode loop on the description `description`
Decode(description) ==
    /\ FromDescription(description)
    /\ IF thrown' = <<>>
       THEN /\ deserializedFeatureMap' =
                   MapPut(deserializedFeatureMap, _id'[ret'[1]], ret'[1])
            /\ decoded' = Append(decoded, ret'[1])
       ELSE UNCHANGED <<deserializedFeatureMap, decoded>>

(***************************************************************************)
(* The dependents relation, as a relation: the features a cascade from n   *)
(* reaches, computed as a least fixed point and not by the recursion of    *)
(* SetDirtyFlag.                                                           *)
(***************************************************************************)
DependentsOf(n) == {_dependents[n][i] : i \in 1..Len(_dependents[n])}

RECURSIVE Grow(_)
Grow(S) == LET T == S \cup UNION {DependentsOf(m) : m \in S}
           IN IF T = S THEN S ELSE Grow(T)

\* n and the transitive closure of n's dependents
Closure(n) == Grow({n})

\* some feature a cascade from n reaches is its own transitive dependent
OnCycle(n) == \E m \in Closure(n) : m \in Grow(DependentsOf(m))

(***************************************************************************)
(* Ownership.  _inputFeatures and _dependents both hold std::shared_ptr    *)
(* (AddDependent and AddInputFeature push their std::shared_ptr argument,  *)
(* and SetDirtyFlag compares the entries of _dependents with nullptr and   *)
(* calls through them), so every entry of either list of a live feature    *)
(* counts in the use count of the feature it names, as does a variable of  *)
(* the caller.  A feature whose use count is 0 is destroyed, and its       *)
(* members with it.                                                        *)
(***************************************************************************)
InputsOf(n) == {_inputFeatures[n][i] : i \in 1..Len(_inputFeatures[n])}

\* every input edge has its dependents entry and every dependents entry its input edge
Mirrored ==
    \A a, b \in Features : (b \in DependentsOf(a)) <=> (a \in InputsOf(b))

\* the live features holding a std::shared_ptr to n, when those of dead are destroyed
Owners(n, dead) ==
    {m \in Features \ dead : n \in InputsOf(m) \cup DependentsOf(m)}

\* use_count() of n is not 0
InUse(n, roots, dead) == roots[n] \/ Owners(n, dead) # {}

\* the features destroyed once the caller's variables are `roots`: each feature
\* whose use count has come to 0 is destroyed, which releases what it holds
RECURSIVE Release(_, _)
Release(roots, dead) ==
    LET unused == {n \in Features \ dead : ~InUse(n, roots, dead)}
    IN IF unused = {} THEN dead ELSE Release(roots, dead \cup unused)

(***************************************************************************)
(* utilities::IndentedTextWriter (IndentedTextWriter.cpp).  The buffer is  *)
(* the sequence of the strings inserted into the std::stringstream, so     *)
(* that what a call inserted can be told from the buffer.  The history     *)
(* variable lineCalls holds the Write and WriteRaw calls made since the    *)
(* last WriteNewLine (or since construction, when begun is FALSE), each    *)
(* with its arguments and the indent count at the call.                    *)
(***************************************************************************)
\* static const std::string tabStringDefault
tabStringDefault == "    "

\* _tabString: set by the constructors and never assigned again
_tabString == tabStringDefault

\* what std::endl inserts
endl == "\n"

\* the strings the caller writes
WriterValues == {"a"}

NoCalls == [begun |-> FALSE, calls |-> <<>>]

\* the members the header initializes: IndentedTextWriter.h is not among the
\* sources, so _needsIndent starts with either value
DefaultMembers ==
    /\ _indentCount = 0
    /\ _needsIndent \in BOOLEAN

\* no writer is in use
NoWriter ==
    /\ _buffer = <<>>
    /\ _indentCount = 0
    /\ _needsIndent = FALSE
    /\ lineCalls = NoCalls

\* everything but the writer is left alone
WriterOnly(op, args) ==
    /\ call' = <<op, args>>
    /\ UNCHANGED <<programVars, computeCalls, ret, served, codecVars>>

\* void IndentedTextWriter::WriteIndent(int count), on the buffer `buffer`
WriteIndentCount(buffer, count) == buffer \o [i \in 1..count |-> _tabString]

\* WriteIndent() leaving _needsIndent set
WriteIndentKeepsFlag(w) ==
    IF w.needsIndent
    THEN [w EXCEPT !.buffer = WriteIndentCount(@, _indentCount)]
    ELSE w

\* void IndentedTextWriter::WriteIndent(), on the writer w = [buffer, needsIndent]
WriteIndent(w) ==
    IF w.needsIndent
    THEN [buffer |-> WriteIndentCount(w.buffer, _indentCount), needsIndent |-> FALSE]
    ELSE w

\* IndentedTextWriter& IndentedTextWriter::WriteNewLine()
WriteNewLine ==
    /\ _buffer' = Append(_buffer, endl)
    /\ _needsIndent' = TRUE
    /\ UNCHANGED _indentCount

\* IndentedTextWriter& IndentedTextWriter::Write(const std::string& value)
Write(value) ==
    LET w == WriteIndent([buffer |-> _buffer, needsIndent |-> _needsIndent])
    IN /\ _buffer' = Append(w.buffer, value)
       /\ _needsIndent' = w.needsIndent
       /\ UNCHANGED _indentCount

\* IndentedTextWriter& IndentedTextWriter::WriteRaw(const std::string& value, int indentCount)
WriteRaw(value, indentCount) ==
    /\ _buffer' = Append(IF indentCount > 0 THEN WriteIndentCount(_buffer, indentCount)
                                            ELSE _buffer,
                         value)
    /\ UNCHANGED <<_indentCount, _needsIndent>>

\* IndentedTextWriter& IndentedTextWriter::IncreaseIndent()
IncreaseIndent ==
    /\ _indentCount' = _indentCount + 1
    /\ UNCHANGED <<_buffer, _needsIndent>>

\* IndentedTextWriter& IndentedTextWriter::DecreaseIndent()
DecreaseIndent ==
    /\ _indentCount' = IF _indentCount > 0 THEN _indentCount - 1 ELSE _indentCount
    /\ UNCHANGED <<_buffer, _needsIndent>>

\* IndentedTextWriter::IndentedTextWriter(const IndentedTextWriter& other): the
\* caller goes on with the copy, whose buffer is empty and whose _needsIndent is
\* the one the header gives
CopyCtor ==
    /\ _buffer' = <<>>
    /\ _indentCount' = _indentCount
    /\ _needsIndent' \in BOOLEAN

(***************************************************************************)
(* The history variable: a feature's entry is "never" until its first      *)
(* GetOutput(), then "val" with the vector that call returned, and "stale" *)
(* from the moment a SetDirtyFlag(true) or a Reset() reaches the feature.  *)
(***************************************************************************)
Never == [st |-> "never", v |-> <<>>]
Stale == [st |-> "stale", v |-> <<>>]
Val(v) == [st |-> "val", v |-> v]

Invalidate(n) ==
    [m \in DOMAIN served |->
        IF m \in Closure(n) /\ served[m].st = "val" THEN Stale ELSE served[m]]

Init ==
    /\ _instanceCount = 0
    /\ _createTypeMap = EmptyMap
    /\ _id = <<>>
    /\ _class = <<>>
    /\ _numColumns = <<>>
    /\ _isDirty = <<>>
    /\ _cachedValue = <<>>
    /\ _inputFeatures = <<>>
    /\ _dependents = <<>>
    /\ pc = "run"
    /\ destroyed = {}
    /\ rootRefs = <<>>
    /\ call = <<>>
    /\ computeCalls = 0
    /\ ret = <<>>
    /\ served = <<>>
    /\ deserializedFeatureMap = EmptyMap
    /\ outStream = <<>>
    /\ written = 0
    /\ lineNo = 0
    /\ decoded = <<>>
    /\ phase = "build"
    /\ thrown = <<>>
    /\ invoked = <<>>
    /\ registered = {}
    /\ NoWriter

(***************************************************************************)
(* The graph runs: features are constructed (by the constructors that draw *)
(* the id from the counter), wired through AddDependent, and pulled and    *)
(* invalidated in any order.  A dependent is constructed after the feature *)
(* it depends on, as its constructor takes its inputs: the dependents      *)
(* graphs of these runs are the acyclic ones, in construction order.  The  *)
(* probes are not kept in these runs.                                      *)
(***************************************************************************)
GraphFeatureCtor ==
    /\ Len(_id) < MaxFeatures
    /\ \E cls \in GraphTypes : FeatureCtor(cls)
    /\ UNCHANGED <<probeVars, codecVars, writerVars>>

GraphFeatureCtorInputs ==
    /\ Len(_id) < MaxFeatures
    /\ \E cls \in GraphTypes : FeatureCtorInputs(<<>>, cls)
    /\ UNCHANGED <<probeVars, codecVars, writerVars>>

GraphAddDependent ==
    /\ NumDependents < MaxDependents
    /\ \E n \in Features, f \in Features : n < f /\ AddDependent(n, f)
    /\ UNCHANGED <<probeVars, codecVars, writerVars>>

GraphSetDirtyFlag ==
    /\ \E n \in Features, d \in BOOLEAN : SetDirtyFlagCall(n, d)
    /\ UNCHANGED <<probeVars, codecVars, writerVars>>

GraphReset ==
    /\ \E n \in Features : ResetCall(n)
    /\ UNCHANGED <<probeVars, codecVars, writerVars>>

GraphGetOutput ==
    /\ \E n \in Features, calls \in 0..1, out \in ComputeResults : GetOutput(n, calls, out)
    /\ UNCHANGED <<probeVars, codecVars, writerVars>>

NextGraph ==
    \/ GraphFeatureCtor
    \/ GraphFeatureCtorInputs
    \/ GraphAddDependent
    \/ GraphSetDirtyFlag
    \/ GraphReset
    \/ GraphGetOutput

SpecGraph == Init /\ [][NextGraph]_vars

(***************************************************************************)
(* The cache runs: the same operations on a smaller graph, with every call *)
(* recorded in the probes and the history variable kept.  The features are *)
(* built by all four constructors, alternating between those that draw the *)
(* id from the counter and those that are given one.                       *)
(***************************************************************************)
Probe(op, n, calls, out) ==
    /\ call' = <<op, n>>
    /\ computeCalls' = calls
    /\ ret' = out
    /\ UNCHANGED <<codecVars, writerVars>>

CacheFeatureCtor ==
    /\ Len(_id) < CacheFeatures
    /\ Len(_id) % 2 = 0
    /\ \E cls \in GraphTypes : FeatureCtor(cls)
    /\ Probe("Feature", Len(_id) + 1, 0, <<>>)
    /\ served' = Append(served, Never)

CacheFeatureCtorId ==
    /\ Len(_id) < CacheFeatures
    /\ Len(_id) % 2 = 1
    /\ \E cls \in GraphTypes, id \in CacheIds : FeatureCtorId(id, cls)
    /\ Probe("Feature", Len(_id) + 1, 0, <<>>)
    /\ served' = Append(served, Never)

CacheFeatureCtorInputs ==
    /\ Len(_id) < CacheFeatures
    /\ Len(_id) % 2 = 0
    /\ \E cls \in GraphTypes : FeatureCtorInputs(<<>>, cls)
    /\ Probe("Feature", Len(_id) + 1, 0, <<>>)
    /\ served' = Append(served, Never)

CacheFeatureCtorIdInputs ==
    /\ Len(_id) < CacheFeatures
    /\ Len(_id) % 2 = 1
    /\ \E cls \in GraphTypes, id \in CacheIds : FeatureCtorIdInputs(id, <<>>, cls)
    /\ Probe("Feature", Len(_id) + 1, 0, <<>>)
    /\ served' = Append(served, Never)

CacheAddDependent ==
    /\ NumDependents < CacheDependents
    /\ \E n \in Features, f \in Features :
          AddDependent(n, f) /\ Probe("AddDependent", n, 0, <<>>)
    /\ UNCHANGED served

CacheSetDirtyFlag ==
    \E n \in Features, d \in BOOLEAN :
        /\ SetDirtyFlagCall(n, d)
        /\ Probe(IF d THEN "SetDirtyFlag(true)" ELSE "SetDirtyFlag(false)", n, 0, <<>>)
        /\ served' = IF d THEN Invalidate(n) ELSE served

CacheReset ==
    \E n \in Features :
        /\ ResetCall(n)
        /\ Probe("Reset", n, 0, <<>>)
        /\ served' = Invalidate(n)

CacheGetOutput ==
    \E n \in Features, calls \in 0..1, out \in ComputeResults :
        /\ GetOutput(n, calls, out)
        /\ Probe("GetOutput", n, calls, <<out>>)
        /\ served' = [served EXCEPT ![n] = Val(out)]

NextCache ==
    \/ CacheFeatureCtor
    \/ CacheFeatureCtorId
    \/ CacheFeatureCtorInputs
    \/ CacheFeatureCtorIdInputs
    \/ CacheAddDependent
    \/ CacheSetDirtyFlag
    \/ CacheReset
    \/ CacheGetOutput

SpecCache == Init /\ [][NextCache]_vars

(***************************************************************************)
(* The registry runs: deserialize functions are registered and             *)
(* descriptions are decoded in any order.                                  *)
(***************************************************************************)
RegistryTags == {<<"T">>, <<"U">>}
RegistryFunctions == {<<"T">>, <<"U">>}
RegistryDescriptions ==
    {<<id, type>> \o inputs :
        id \in {<<"a">>, <<"b">>},
        type \in {<<"T">>, <<" ", "T", "\t">>, <<"U">>},
        inputs \in {<<>>, <<<<"a">>>>}}

RegistryRegister ==
    \E class_name \in RegistryTags, create_fn \in RegistryFunctions :
        /\ RegisterDeserializeFunction(class_name, create_fn)
        /\ registered' = registered \cup {class_name}
        /\ call' = <<"RegisterDeserializeFunction", class_name>>
        /\ thrown' = <<>> /\ invoked' = <<>> /\ ret' = <<>>
        /\ UNCHANGED <<computeCalls, served, callerVars, writerVars>>

RegistryDecode ==
    /\ Len(_id) < RegistryFeatures
    /\ \E description \in RegistryDescriptions :
          /\ Decode(description)
          /\ call' = <<"FromDescription", description>>
    /\ UNCHANGED <<computeCalls, served, outStream, written, lineNo, phase, rootRefs,
                   registered, writerVars>>

NextRegistry ==
    \/ RegistryRegister
    \/ RegistryDecode

SpecRegistry == Init /\ [][NextRegistry]_vars

(***************************************************************************)
(* The codec runs.  Every class has registered its deserialize function    *)
(* before the run starts.  The caller builds a graph, each feature from    *)
(* features built before it, serializes the features in that order, and    *)
(* then decodes the stream line by line; a line that fails ends the loop.  *)
(***************************************************************************)
CodecTypes == {<<"T">>, <<"U">>}
CodecIds == {<<"a">>, <<"b">>, <<"a", "\t", "b">>}

\* the lists of at most MaxInputs features among the first k
InputLists(k) == UNION {[1..m -> 1..k] : m \in 0..MaxInputs}

InitCodec ==
    /\ _instanceCount = 0
    /\ _createTypeMap = [class_name \in CodecTypes |-> class_name]
    /\ _id = <<>>
    /\ _class = <<>>
    /\ _numColumns = <<>>
    /\ _isDirty = <<>>
    /\ _cachedValue = <<>>
    /\ _inputFeatures = <<>>
    /\ _dependents = <<>>
    /\ pc = "run"
    /\ destroyed = {}
    /\ rootRefs = <<>>
    /\ call = <<>>
    /\ computeCalls = 0
    /\ ret = <<>>
    /\ served = <<>>
    /\ deserializedFeatureMap = EmptyMap
    /\ outStream = <<>>
    /\ written = 0
    /\ lineNo = 0
    /\ decoded = <<>>
    /\ phase = "build"
    /\ thrown = <<>>
    /\ invoked = <<>>
    /\ registered = CodecTypes
    /\ NoWriter

Returns(op, n) ==
    /\ call' = <<op, n>>
    /\ thrown' = <<>>
    /\ invoked' = <<>>
    /\ ret' = <<>>
    /\ UNCHANGED <<computeCalls, served, registered>>

CodecFeatureCtorInputs ==
    /\ phase = "build"
    /\ Len(_id) < CodecFeatures
    /\ \E cls \in CodecTypes, inputs \in InputLists(Len(_id)) :
          FeatureCtorInputs(inputs, cls)
    /\ Returns("Feature", Len(_id) + 1)
    /\ UNCHANGED <<callerVars, writerVars>>

CodecFeatureCtorIdInputs ==
    /\ phase = "build"
    /\ Len(_id) < CodecFeatures
    /\ \E id \in CodecIds, cls \in CodecTypes, inputs \in InputLists(Len(_id)) :
          FeatureCtorIdInputs(id, inputs, cls)
    /\ Returns("Feature", Len(_id) + 1)
    /\ UNCHANGED <<callerVars, writerVars>>

CodecSerialize ==
    /\ phase \in {"build", "write"}
    /\ written < Len(_id)
    /\ Serialize(written + 1)
    /\ written' = written + 1
    /\ phase' = IF written' = Len(_id) THEN "read" ELSE "write"
    /\ Returns("Serialize", written + 1)
    /\ UNCHANGED <<deserializedFeatureMap, lineNo, decoded, rootRefs, writerVars>>

CodecDecodeLine ==
    /\ phase = "read"
    /\ lineNo < Len(Lines(outStream))
    /\ LET description == Tokens(Lines(outStream)[lineNo + 1])
       IN /\ Decode(description)
          /\ call' = <<"FromDescription", description>>
    /\ lineNo' = lineNo + 1
    /\ phase' = IF thrown' # <<>> THEN "failed"
                ELSE IF lineNo' = Len(Lines(outStream)) THEN "done"
                ELSE "read"
    /\ UNCHANGED <<outStream, written, rootRefs, registered, computeCalls, served,
                   writerVars>>

NextCodec ==
    \/ CodecFeatureCtorInputs
    \/ CodecFeatureCtorIdInputs
    \/ CodecSerialize
    \/ CodecDecodeLine

SpecCodec == InitCodec /\ [][NextCodec]_vars

(***************************************************************************)
(* The id runs: features are constructed by the four constructors, with    *)
(* and without an id of the caller's, and given further inputs.            *)
(***************************************************************************)
IdChoices == {<<"f", "_", "1">>, <<"x">>}

\* no input, or one of the features constructed so far
IdInputs == {<<>>} \cup {<<f>> : f \in Features}

IdFeatureCtor ==
    /\ Len(_id) < IdFeatures
    /\ \E cls \in GraphTypes : FeatureCtor(cls)
    /\ UNCHANGED <<probeVars, codecVars, writerVars>>

IdFeatureCtorId ==
    /\ Len(_id) < IdFeatures
    /\ \E cls \in GraphTypes, id \in IdChoices : FeatureCtorId(id, cls)
    /\ UNCHANGED <<probeVars, codecVars, writerVars>>

IdFeatureCtorInputs ==
    /\ Len(_id) < IdFeatures
    /\ \E cls \in GraphTypes, inputs \in IdInputs : FeatureCtorInputs(inputs, cls)
    /\ UNCHANGED <<probeVars, codecVars, writerVars>>

IdFeatureCtorIdInputs ==
    /\ Len(_id) < IdFeatures
    /\ \E cls \in GraphTypes, id \in IdChoices, inputs \in IdInputs :
          FeatureCtorIdInputs(id, inputs, cls)
    /\ UNCHANGED <<probeVars, codecVars, writerVars>>

IdAddInputFeature ==
    /\ \E n \in Features, f \in Features :
          Len(_inputFeatures[n]) = 0 /\ AddInputFeature(n, f)
    /\ UNCHANGED <<probeVars, codecVars, writerVars>>

NextId ==
    \/ IdFeatureCtor
    \/ IdFeatureCtorId
    \/ IdFeatureCtorInputs
    \/ IdFeatureCtorIdInputs
    \/ IdAddInputFeature

SpecId == Init /\ [][NextId]_vars

(***************************************************************************)
(* The ownership runs: the caller makes features with std::make_shared,    *)
(* keeping the pointer in a variable of its own, connects live features    *)
(* (each edge once, none from a feature to itself) and lets go of its      *)
(* variables one by one.                                                   *)
(***************************************************************************)
Live == Features \ destroyed

\* the number of entries of all _inputFeatures lists
RECURSIVE SumLen(_, _)
SumLen(lists, i) == IF i > Len(lists) THEN 0 ELSE Len(lists[i]) + SumLen(lists, i + 1)

NumInputs == SumLen(_inputFeatures, 1)

OwnerMakeShared ==
    /\ Len(_id) < OwnerFeatures
    /\ \E cls \in GraphTypes,
          inputs \in {<<>>} \cup {<<f>> : f \in {g \in Live : NumInputs + NumDependents < OwnerEdges}} :
          FeatureCtorInputs(inputs, cls)
    /\ rootRefs' = Append(rootRefs, TRUE)
    /\ UNCHANGED <<probeVars, deserializedFeatureMap, outStream, written, lineNo, decoded,
                   phase, thrown, invoked, registered, writerVars>>

OwnerAddInputFeature ==
    /\ NumInputs + NumDependents < OwnerEdges
    /\ \E n \in Live : \E f \in Live \ (InputsOf(n) \cup {n}) : AddInputFeature(n, f)
    /\ UNCHANGED <<probeVars, codecVars, writerVars>>

OwnerAddDependent ==
    /\ NumInputs + NumDependents < OwnerEdges
    /\ \E n \in Live : \E f \in Live \ (DependentsOf(n) \cup {n}) : AddDependent(n, f)
    /\ UNCHANGED <<probeVars, codecVars, writerVars>>

\* the caller's variable holding feature n goes out of scope
OwnerRelease ==
    /\ pc = "run"
    /\ \E n \in Features :
          /\ rootRefs[n]
          /\ rootRefs' = [rootRefs EXCEPT ![n] = FALSE]
          /\ destroyed' = Release(rootRefs', destroyed)
    /\ UNCHANGED <<_instanceCount, _createTypeMap, featureVars, pc, probeVars,
                   deserializedFeatureMap, outStream, written, lineNo, decoded, phase,
                   thrown, invoked, registered, writerVars>>

NextOwner ==
    \/ OwnerMakeShared
    \/ OwnerAddInputFeature
    \/ OwnerAddDependent
    \/ OwnerRelease

SpecOwner == Init /\ [][NextOwner]_vars

(***************************************************************************)
(* The width runs: features of a class of width 1 and of a class of width  *)
(* 2, whose ComputeOutput() overrides return any of ComputeResults, with   *)
(* GetOutput(), SetDirtyFlag() and HasOutput() called on any of them.      *)
(***************************************************************************)
WidthTypes == {<<"T">>, <<"V">>}

WidthFeatureCtor ==
    /\ Len(_id) < WidthFeatures
    /\ \E cls \in WidthTypes : FeatureCtor(cls)
    /\ Probe("Feature", Len(_id) + 1, 0, <<>>)
    /\ served' = Append(served, Never)

WidthSetDirtyFlag ==
    \E n \in Features, d \in BOOLEAN :
        /\ SetDirtyFlagCall(n, d)
        /\ Probe(IF d THEN "SetDirtyFlag(true)" ELSE "SetDirtyFlag(false)", n, 0, <<>>)
        /\ served' = IF d THEN Invalidate(n) ELSE served

WidthGetOutput ==
    \E n \in Features, calls \in 0..1, out \in ComputeResults :
        /\ GetOutput(n, calls, out)
        /\ Probe("GetOutput", n, calls, <<out>>)
        /\ served' = [served EXCEPT ![n] = Val(out)]

WidthHasOutput ==
    /\ \E n \in Features, out \in BOOLEAN :
          HasOutputCall(n, out) /\ Probe("HasOutput", n, 0, <<out>>)
    /\ UNCHANGED served

NextWidth ==
    \/ WidthFeatureCtor
    \/ WidthHasOutput
    \/ WidthSetDirtyFlag
    \/ WidthGetOutput

SpecWidth == Init /\ [][NextWidth]_vars

(***************************************************************************)
(* The warmup runs: a graph of features of a class that keeps the base     *)
(* WarmupTime() and of two that override it, each feature built from       *)
(* features built before it, and WarmupTime() called on any of them.       *)
(***************************************************************************)
WarmupTypes == {<<"T">>, <<"W", "1">>, <<"W", "2">>}

\* the lists of at most k features among those constructed so far
ListsOf(k) == UNION {[1..m -> Features] : m \in 0..k}

WarmupFeatureCtorInputs ==
    /\ Len(_id) < WarmupFeatures
    /\ \E cls \in WarmupTypes, inputs \in ListsOf(WarmupInputs) :
          FeatureCtorInputs(inputs, cls)
    /\ Probe("Feature", Len(_id) + 1, 0, <<>>)
    /\ UNCHANGED served

WarmupWarmupTime ==
    /\ \E n \in Features, out \in 0..2 :
          WarmupTimeCall(n, out) /\ Probe("WarmupTime", n, 0, <<out>>)
    /\ UNCHANGED served

NextWarmup ==
    \/ WarmupFeatureCtorInputs
    \/ WarmupWarmupTime

SpecWarmup == Init /\ [][NextWarmup]_vars

(***************************************************************************)
(* The search runs: a graph of plain features and input features, each     *)
(* built from features built before it, and FindInputFeature() called on   *)
(* any of them.                                                            *)
(***************************************************************************)
FindTypes == {<<"T">>, <<"I">>}

FindFeatureCtorInputs ==
    /\ Len(_id) < FindFeatures
    /\ \E cls \in FindTypes, inputs \in ListsOf(FindInputs) :
          FeatureCtorInputs(inputs, cls)
    /\ Probe("Feature", Len(_id) + 1, 0, <<>>)
    /\ UNCHANGED served

FindFindInputFeature ==
    /\ \E n \in Features, out \in {<<>>} \cup {<<f>> : f \in Features} :
          FindInputFeatureCall(n, out) /\ Probe("FindInputFeature", n, 0, <<out>>)
    /\ UNCHANGED served

NextFind ==
    \/ FindFeatureCtorInputs
    \/ FindFindInputFeature

SpecFind == Init /\ [][NextFind]_vars

(***************************************************************************)
(* The description runs: features of a class without fields of its own and *)
(* of one with a field, given inputs by the constructor and by             *)
(* AddInputFeature, and GetDescription() called on any of them.  The probe *)
(* `call` records the arguments of the calls that give inputs.             *)
(***************************************************************************)
DescribeTypes == {<<"T">>, <<"D">>}

DescribeFeatureCtorInputs ==
    /\ Len(_id) < DescribeFeatures
    /\ \E cls \in DescribeTypes, inputs \in ListsOf(DescribeInputs - NumInputs) :
          /\ FeatureCtorInputs(inputs, cls)
          /\ Probe("Feature", <<Len(_id) + 1, inputs>>, 0, <<>>)
    /\ UNCHANGED served

DescribeAddInputFeature ==
    /\ NumInputs < DescribeInputs
    /\ \E n \in Features, f \in Features :
          AddInputFeature(n, f) /\ Probe("AddInputFeature", <<n, f>>, 0, <<>>)
    /\ UNCHANGED served

DescribeGetDescription ==
    /\ \E n \in Features :
          \E out \in {GetDescription(n)} :
              GetDescriptionCall(n, out) /\ Probe("GetDescription", n, 0, <<out>>)
    /\ UNCHANGED served

NextDescribe ==
    \/ DescribeFeatureCtorInputs
    \/ DescribeAddInputFeature
    \/ DescribeGetDescription

SpecDescribe == Init /\ [][NextDescribe]_vars

(***************************************************************************)
(* The construction runs: features are built and connected, by the         *)
(* constructor, by AddInputFeature and by AddDependent, while GetOutput()  *)
(* fills caches and clears flags.  The probe `call` records the arguments  *)
(* of the calls that connect.                                              *)
(***************************************************************************)
BuildFeatureCtorInputs ==
    /\ Len(_id) < BuildFeatures
    /\ \E cls \in GraphTypes, inputs \in ListsOf(BuildEdges - (NumInputs + NumDependents)) :
          /\ FeatureCtorInputs(inputs, cls)
          /\ Probe("Feature", <<Len(_id) + 1, inputs>>, 0, <<>>)
    /\ UNCHANGED served

BuildAddInputFeature ==
    /\ NumInputs + NumDependents < BuildEdges
    /\ \E n \in Features, f \in Features :
          AddInputFeature(n, f) /\ Probe("AddInputFeature", <<n, f>>, 0, <<>>)
    /\ UNCHANGED served

BuildAddDependent ==
    /\ NumInputs + NumDependents < BuildEdges
    /\ \E n \in Features, f \in Features :
          AddDependent(n, f) /\ Probe("AddDependent", <<n, f>>, 0, <<>>)
    /\ UNCHANGED served

BuildGetOutput ==
    /\ \E n \in Features, calls \in 0..1, out \in ComputeResults :
          GetOutput(n, calls, out) /\ Probe("GetOutput", n, calls, <<out>>)
    /\ UNCHANGED served

NextBuild ==
    \/ BuildFeatureCtorInputs
    \/ BuildAddInputFeature
    \/ BuildAddDependent
    \/ BuildGetOutput

SpecBuild == Init /\ [][NextBuild]_vars

(***************************************************************************)
(* The mirrored runs.  The builder constructs each feature from features   *)
(* built before it (each input once) and registers it as a dependent of    *)
(* every one of its inputs before it goes on; once the graph is built,     *)
(* GetOutput(), SetDirtyFlag(true) and Reset() are called on any feature,  *)
(* and ComputeOutput() reads the inputs.  The history variable is kept:    *)
(* a feature is "stale" from the moment an invalidation reaches it until   *)
(* the next GetOutput() on it, and "cleared" once the caller has called    *)
(* SetDirtyFlag(false) on it.                                              *)
(***************************************************************************)
Cleared == [st |-> "cleared", v |-> <<>>]

InvalidateAll(n) == [m \in DOMAIN served |-> IF m \in Closure(n) THEN Stale ELSE served[m]]

\* the lists of distinct features constructed so far, in construction order
RECURSIVE Ascending(_)
Ascending(S) ==
    IF S = {} THEN <<>>
    ELSE LET least == CHOOSE x \in S : \A y \in S : x <= y
         IN <<least>> \o Ascending(S \ {least})

DistinctInputs == {Ascending(S) : S \in SUBSET Features}

\* the features whose ComputeOutput() a call of GetOutput() on n invokes: n when it is
\* dirty or holds no value, and the inputs of such features that are so themselves
Needed(n) == _isDirty[n] \/ Len(_cachedValue[n]) = 0

RECURSIVE GrowNeeded(_)
GrowNeeded(S) ==
    LET T == S \cup {m \in UNION {InputsOf(k) : k \in S} : Needed(m)}
    IN IF T = S THEN S ELSE GrowNeeded(T)

ToCompute(n) == IF Needed(n) THEN GrowNeeded({n}) ELSE {}

\* the vectors the ComputeOutput() overrides return in a call of GetOutput() on n:
\* any of ComputeResults for each feature whose ComputeOutput() is invoked
ResultsFor(n) ==
    {[m \in Features |-> IF m \in ToCompute(n) THEN r[m] ELSE <<>>] :
        r \in [ToCompute(n) -> ComputeResults]}

\* the features GetOutput() was called on in a trace
Called(trace) == {trace[i][1] : i \in 1..Len(trace)}

\* the GetOutput() calls of a trace that invoked ComputeOutput()
Computed(trace) == {i \in 1..Len(trace) : trace[i][2] = "computed"}

MirrorFeatureCtorInputs ==
    /\ phase = "build"
    /\ Mirrored
    /\ Len(_id) < MirrorFeatures
    /\ \E cls \in GraphTypes, inputs \in DistinctInputs : FeatureCtorInputs(inputs, cls)
    /\ Probe("Feature", Len(_id) + 1, 0, <<>>)
    /\ served' = Append(served, Never)

MirrorAddDependent ==
    /\ phase = "build"
    /\ \E f \in Features : \E n \in InputsOf(f) \ {m \in Features : f \in DependentsOf(m)} :
          AddDependent(n, f) /\ Probe("AddDependent", <<n, f>>, 0, <<>>)
    /\ UNCHANGED served

MirrorGetOutput ==
    /\ Mirrored
    /\ \E n \in Features : \E results \in ResultsFor(n) :
          LET trace == GetOutputOf(n, results).trace
          IN /\ GetOutputCall(n, results)
             /\ call' = <<"GetOutput", n>>
             /\ computeCalls' = Cardinality(Computed(trace))
             /\ ret' = <<_cachedValue'[n], trace, {m \in Features : served[m] = Stale}>>
             /\ served' = [m \in DOMAIN served |->
                              IF m \in Called(trace) THEN Val(_cachedValue'[m])
                              ELSE served[m]]
    /\ phase' = "run"
    /\ UNCHANGED <<deserializedFeatureMap, outStream, written, lineNo, decoded, rootRefs,
                   thrown, invoked, registered, writerVars>>

MirrorSetDirtyFlag ==
    /\ Mirrored
    /\ \E n \in Features :
          /\ SetDirtyFlagCall(n, TRUE)
          /\ call' = <<"SetDirtyFlag(true)", n>>
          /\ served' = InvalidateAll(n)
    /\ computeCalls' = 0
    /\ ret' = <<>>
    /\ phase' = "run"
    /\ UNCHANGED <<deserializedFeatureMap, outStream, written, lineNo, decoded, rootRefs,
                   thrown, invoked, registered, writerVars>>

MirrorReset ==
    /\ Mirrored
    /\ \E n \in Features :
          /\ ResetCall(n)
          /\ call' = <<"Reset", n>>
          /\ served' = InvalidateAll(n)
    /\ computeCalls' = 0
    /\ ret' = <<>>
    /\ phase' = "run"
    /\ UNCHANGED <<deserializedFeatureMap, outStream, written, lineNo, decoded, rootRefs,
                   thrown, invoked, registered, writerVars>>

MirrorClear ==
    /\ Mirrored
    /\ \E n \in Features :
          /\ SetDirtyFlagCall(n, FALSE)
          /\ call' = <<"SetDirtyFlag(false)", n>>
          /\ served' = [served EXCEPT ![n] = Cleared]
    /\ computeCalls' = 0
    /\ ret' = <<>>
    /\ phase' = "run"
    /\ UNCHANGED <<deserializedFeatureMap, outStream, written, lineNo, decoded, rootRefs,
                   thrown, invoked, registered, writerVars>>

NextMirror ==
    \/ MirrorFeatureCtorInputs
    \/ MirrorAddDependent
    \/ MirrorGetOutput
    \/ MirrorSetDirtyFlag
    \/ MirrorReset

SpecMirror == Init /\ [][NextMirror]_vars

\* the same runs on a graph of ClearFeatures features, with SetDirtyFlag(false)
\* called as well
ClearFeatureCtorInputs ==
    /\ phase = "build"
    /\ Mirrored
    /\ Len(_id) < ClearFeatures
    /\ \E cls \in GraphTypes, inputs \in DistinctInputs : FeatureCtorInputs(inputs, cls)
    /\ Probe("Feature", Len(_id) + 1, 0, <<>>)
    /\ served' = Append(served, Never)

NextMirrorClear ==
    \/ ClearFeatureCtorInputs
    \/ MirrorAddDependent
    \/ MirrorGetOutput
    \/ MirrorSetDirtyFlag
    \/ MirrorReset
    \/ MirrorClear

SpecMirrorClear == Init /\ [][NextMirrorClear]_vars

(***************************************************************************)
(* The runs that ask whether a call returns: features of the base class    *)
(* and of InputFeature are constructed and wired in any way                *)
(* AddInputFeature and AddDependent allow, cycles and self loops included, *)
(* and the four recursive methods are called.                              *)
(***************************************************************************)
TermTypes == {<<"T">>, <<"I">>}

TermFeatureCtorInputs ==
    /\ Len(_id) < TermFeatures
    /\ \E cls \in TermTypes, inputs \in ListsOf(TermEdges - (NumInputs + NumDependents)) :
          /\ FeatureCtorInputs(inputs, cls)
          /\ Probe("Feature", <<Len(_id) + 1, inputs>>, 0, <<>>)
    /\ UNCHANGED served

TermAddInputFeature ==
    /\ NumInputs + NumDependents < TermEdges
    /\ \E n \in Features, f \in Features :
          AddInputFeature(n, f) /\ Probe("AddInputFeature", <<n, f>>, 0, <<>>)
    /\ UNCHANGED served

TermAddDependent ==
    /\ NumInputs + NumDependents < TermEdges
    /\ \E n \in Features, f \in Features :
          AddDependent(n, f) /\ Probe("AddDependent", <<n, f>>, 0, <<>>)
    /\ UNCHANGED served

TermSetDirtyFlag ==
    /\ \E n \in Features : SetDirtyFlagCall(n, TRUE) /\ Probe("SetDirtyFlag", n, 0, <<>>)
    /\ UNCHANGED served

TermReset ==
    /\ \E n \in Features : ResetCall(n) /\ Probe("Reset", n, 0, <<>>)
    /\ UNCHANGED served

TermWarmupTime ==
    /\ \E n \in Features :
          LET r == VirtualWarmupTimeAt(n, 1)
          IN ConstCall(r) /\ Probe("WarmupTime", n, 0, <<>>)
    /\ UNCHANGED served

TermFindInputFeature ==
    /\ \E n \in Features :
          LET r == FindInputFeatureAt(n, 1)
          IN ConstCall(r) /\ Probe("FindInputFeature", n, 0, <<>>)
    /\ UNCHANGED served

NextTerm ==
    \/ TermFeatureCtorInputs
    \/ TermAddInputFeature
    \/ TermAddDependent
    \/ TermSetDirtyFlag
    \/ TermReset
    \/ TermWarmupTime
    \/ TermFindInputFeature

SpecTerm == Init /\ [][NextTerm]_vars

(***************************************************************************)
(* The runs of a caller that uses the construction primitives with any     *)
(* argument their signatures take, the empty std::shared_ptr included, and *)
(* then invalidates.                                                       *)
(***************************************************************************)
NullFeatureCtorInputs ==
    /\ Len(_id) < NullFeatures
    /\ \E cls \in GraphTypes, inputs \in ListsOf(NullEdges - (NumInputs + NumDependents)) :
          /\ FeatureCtorInputs(inputs, cls)
          /\ Probe("Feature", <<Len(_id) + 1, inputs>>, 0, <<>>)
    /\ UNCHANGED served

NullAddInputFeature ==
    /\ NumInputs + NumDependents < NullEdges
    /\ \E n \in Features, f \in Features \cup {nullptr} :
          AddInputFeature(n, f) /\ Probe("AddInputFeature", <<n, f>>, 0, <<>>)
    /\ UNCHANGED served

NullAddDependent ==
    /\ NumInputs + NumDependents < NullEdges
    /\ \E n \in Features, f \in Features \cup {nullptr} :
          AddDependent(n, f) /\ Probe("AddDependent", <<n, f>>, 0, <<>>)
    /\ UNCHANGED served

NullSetDirtyFlag ==
    /\ \E n \in Features, d \in BOOLEAN :
          SetDirtyFlagCall(n, d) /\ Probe("SetDirtyFlag", <<n, d>>, 0, <<>>)
    /\ UNCHANGED served

NullReset ==
    /\ \E n \in Features : ResetCall(n) /\ Probe("Reset", n, 0, <<>>)
    /\ UNCHANGED served

NextNull ==
    \/ NullFeatureCtorInputs
    \/ NullAddInputFeature
    \/ NullAddDependent
    \/ NullSetDirtyFlag
    \/ NullReset

SpecNull == Init /\ [][NextNull]_vars

(***************************************************************************)
(* The runs of an IndentedTextWriter: a caller that makes any of the calls *)
(* in any order, and stops writing once the buffer holds WriterChunks      *)
(* strings.                                                                *)
(***************************************************************************)
InitWriter ==
    /\ _instanceCount = 0
    /\ _createTypeMap = EmptyMap
    /\ _id = <<>>
    /\ _class = <<>>
    /\ _numColumns = <<>>
    /\ _isDirty = <<>>
    /\ _cachedValue = <<>>
    /\ _inputFeatures = <<>>
    /\ _dependents = <<>>
    /\ pc = "run"
    /\ destroyed = {}
    /\ rootRefs = <<>>
    /\ call = <<>>
    /\ computeCalls = 0
    /\ ret = <<>>
    /\ served = <<>>
    /\ deserializedFeatureMap = EmptyMap
    /\ outStream = <<>>
    /\ written = 0
    /\ lineNo = 0
    /\ decoded = <<>>
    /\ phase = "build"
    /\ thrown = <<>>
    /\ invoked = <<>>
    /\ registered = {}
    /\ _buffer = <<>>
    /\ DefaultMembers
    /\ lineCalls = NoCalls

LineCall(c) == [lineCalls EXCEPT !.calls = Append(@, c)]

WriterCopyCtor ==
    /\ CopyCtor
    /\ lineCalls' = NoCalls
    /\ WriterOnly("IndentedTextWriter", <<>>)

WriterWriteNewLine ==
    /\ Len(_buffer) < WriterChunks
    /\ WriteNewLine
    /\ lineCalls' = [begun |-> TRUE, calls |-> <<>>]
    /\ WriterOnly("WriteNewLine", <<>>)

WriterWrite ==
    /\ Len(_buffer) < WriterChunks
    /\ \E value \in WriterValues :
          /\ Write(value)
          /\ lineCalls' = LineCall([op |-> "Write", value |-> value, count |-> _indentCount])
          /\ WriterOnly("Write", <<value>>)

WriterWriteRaw ==
    /\ Len(_buffer) < WriterChunks
    /\ \E value \in WriterValues, indentCount \in -1..WriterIndent :
          /\ WriteRaw(value, indentCount)
          /\ lineCalls' = LineCall([op |-> "WriteRaw", value |-> value, count |-> indentCount])
          /\ WriterOnly("WriteRaw", <<value, indentCount>>)

WriterIncreaseIndent ==
    /\ _indentCount < WriterIndent
    /\ IncreaseIndent
    /\ UNCHANGED lineCalls
    /\ WriterOnly("IncreaseIndent", <<>>)

WriterDecreaseIndent ==
    /\ DecreaseIndent
    /\ UNCHANGED lineCalls
    /\ WriterOnly("DecreaseIndent", <<>>)

NextWriter ==
    \/ WriterCopyCtor
    \/ WriterWriteNewLine
    \/ WriterWrite
    \/ WriterWriteRaw
    \/ WriterIncreaseIndent
    \/ WriterDecreaseIndent

SpecWriter == InitWriter /\ [][NextWriter]_vars

(***************************************************************************)
(* Properties of the dirty flags and the cache.                            *)
(***************************************************************************)
\* a step that constructs a feature leaves the new feature dirty
NewFeatureIsDirty == Len(_id') > Len(_id) => _isDirty'[Len(_id')]

\* C1, as stated: a feature is dirty right after construction; its first GetOutput()
\* invokes ComputeOutput() exactly once; a further GetOutput() that no
\* SetDirtyFlag(true) or Reset() has reached since invokes it zero times and returns
\* the same vector, whatever vector ComputeOutput() returned.
C1_ComputedOnceForAnyResult ==
    [][/\ NewFeatureIsDirty
       /\ \A n \in Features :
            call' = <<"GetOutput", n>> =>
              /\ served[n].st = "never" => computeCalls' = 1
              /\ served[n].st = "val" => computeCalls' = 0 /\ ret' = <<served[n].v>>]_vars

\* C1, amended: the same, for a non-empty vector; after ComputeOutput() has returned
\* the empty vector the next GetOutput() invokes it again.
C1_ComputedOnceForNonEmptyResult ==
    [][/\ NewFeatureIsDirty
       /\ \A n \in Features :
            call' = <<"GetOutput", n>> =>
              /\ served[n].st = "never" => computeCalls' = 1
              /\ served[n].st = "val" /\ served[n].v # <<>> =>
                    computeCalls' = 0 /\ ret' = <<served[n].v>>
              /\ served[n].st = "val" /\ served[n].v = <<>> => computeCalls' = 1]_vars

\* C1, witness: a GetOutput() has just been answered from the cache.
C1_ServedFromCache ==
    \E n \in Features :
        /\ call = <<"GetOutput", n>>
        /\ computeCalls = 0
        /\ ret = <<_cachedValue[n]>>
        /\ _cachedValue[n] # <<>>

\* C2: after SetDirtyFlag(true) on n (no cycle among the dependents a cascade from n
\* reaches) n and every transitive dependent of n is dirty, and every other flag is
\* as it was.
C2_CascadeMarksClosure ==
    [][\A n \in Features :
          SetDirtyFlagCall(n, TRUE) /\ ~OnCycle(n) =>
            /\ pc' = "run"
            /\ \A m \in Features : _isDirty'[m] = (m \in Closure(n) \/ _isDirty[m])]_vars

\* C2, witness: a chain of three features, each computed once and dirty again.
C2_ChainInvalidated ==
    \E a, b, c \in Features :
        /\ a # b /\ b # c /\ a # c
        /\ b \in DependentsOf(a) /\ c \in DependentsOf(b) /\ c \notin DependentsOf(a)
        /\ \A m \in {a, b, c} : _isDirty[m] /\ _cachedValue[m] # <<>>

\* C3: Reset() on n ends in the state SetDirtyFlag(true) on n ends in: n and its
\* transitive dependents dirty, every other flag and every cached value unchanged.
C3_ResetEqualsCascade ==
    [][\A n \in Features :
          ResetCall(n) /\ ~OnCycle(n) =>
            /\ pc' = "run"
            /\ _isDirty' = SetDirtyFlag(_isDirty, n, TRUE, 1).flags
            /\ \A m \in Features : _isDirty'[m] = (m \in Closure(n) \/ _isDirty[m])
            /\ _cachedValue' = _cachedValue]_vars

\* C3, witness: a feature and its dependent dirty again after a computation, a third
\* feature outside the closure still clean.
C3_ClosureDirtyOthersClean ==
    \E a, b, c \in Features :
        /\ a # b /\ b \in DependentsOf(a)
        /\ c \notin Closure(a)
        /\ _isDirty[a] /\ _cachedValue[a] # <<>>
        /\ _isDirty[b] /\ _cachedValue[b] # <<>>
        /\ ~_isDirty[c] /\ _cachedValue[c] # <<>>

C5_GetOutputIsLocal ==
    [][\A n \in Features :
          (\E calls \in 0..1, out \in ComputeResults : GetOutput(n, calls, out)) =>
            \A m \in Features \ {n} :
                _isDirty'[m] = _isDirty[m] /\ _cachedValue'[m] = _cachedValue[m]]_vars

\* C5, witness: a feature holding a computed value whose dependents are clean and
\* hold the values computed before.
C5_RecomputedBelowCleanDependents ==
    \E a, b, c \in Features :
        /\ a # b /\ b # c /\ a # c
        /\ b \in DependentsOf(a) /\ c \in DependentsOf(b)
        /\ \A m \in {a, b, c} : ~_isDirty[m] /\ _cachedValue[m] # <<>>

\* C6, as stated: a feature starts dirty; it goes from dirty to clean only by a
\* GetOutput() on it that recomputes, and from clean to dirty only by a
\* SetDirtyFlag(true) or a Reset() on a feature whose dependents closure holds it.
C6_OnlyGetOutputCleans ==
    [][/\ NewFeatureIsDirty
       /\ \A m \in Features :
            /\ _isDirty[m] /\ ~_isDirty'[m] =>
                  call' = <<"GetOutput", m>> /\ computeCalls' = 1
            /\ ~_isDirty[m] /\ _isDirty'[m] =>
                  \E n \in Features :
                      /\ m \in Closure(n)
                      /\ call' \in {<<"SetDirtyFlag(true)", n>>, <<"Reset", n>>}]_vars

\* C6, amended: a feature goes from dirty to clean only by a GetOutput() on it that
\* recomputes or by SetDirtyFlag(false) on it; the rest as stated.
C6_GetOutputOrClearCleans ==
    [][/\ NewFeatureIsDirty
       /\ \A m \in Features :
            /\ _isDirty[m] /\ ~_isDirty'[m] =>
                  \/ call' = <<"GetOutput", m>> /\ computeCalls' = 1
                  \/ call' = <<"SetDirtyFlag(false)", m>>
            /\ ~_isDirty[m] /\ _isDirty'[m] =>
                  \E n \in Features :
                      /\ m \in Closure(n)
                      /\ call' \in {<<"SetDirtyFlag(true)", n>>, <<"Reset", n>>}]_vars

\* C6, witness: a cascade from another feature has just made a clean feature dirty.
C6_DirtiedByCascade ==
    \E n, m \in Features :
        /\ n # m /\ m \in Closure(n)
        /\ call \in {<<"SetDirtyFlag(true)", n>>, <<"Reset", n>>}
        /\ _isDirty[m] /\ _cachedValue[m] # <<>>
        /\ served[m].st = "stale"

(***************************************************************************)
(* Properties of the registry and the codec.                               *)
(***************************************************************************)
\* C7: FromDescription on a description whose trimmed type tag was never registered
\* throws the unknown-feature-type error, invokes no deserialize function, returns
\* no feature (none is constructed) and leaves the feature map as it was.
C7_UnknownTypeFails ==
    [][\A description \in RegistryDescriptions :
          /\ call' = <<"FromDescription", description>>
          /\ TrimString(description[2]) \notin registered
          => /\ thrown' = UnknownFeatureType(TrimString(description[2]))
             /\ invoked' = <<>>
             /\ ret' = <<>>
             /\ _id' = _id
             /\ deserializedFeatureMap' = deserializedFeatureMap]_vars

\* C7, witness: a description of an unregistered type has just been refused, with
\* another type registered and a feature in the map.
C7_RefusedWithMapInUse ==
    /\ call # <<>> /\ call[1] = "FromDescription"
    /\ TrimString(call[2][2]) \notin registered
    /\ thrown # <<>>
    /\ registered # {}
    /\ DOMAIN deserializedFeatureMap # {}

\* C8, as stated: the tags GetRegisteredTypes returns are exactly the tags that have
\* been passed to RegisterDeserializeFunction.
C8_RegisteredTypesAreTheRegistered == GetRegisteredTypes = registered

\* the features decoded are the features serialized: same id, same type, same ids
\* of the inputs in the same order
SameDescription(n, m) ==
    /\ Id(n) = Id(m)
    /\ FeatureType(n) = FeatureType(m)
    /\ InputIds(n) = InputIds(m)

\* C9, as stated: once the decode loop has ended on a graph serialized in dependency
\* order, every line has been decoded and the decoded features have the ids, the
\* types and the ordered input ids of the features serialized.
C9_RoundTrip ==
    phase \in {"done", "failed"} =>
        /\ phase = "done"
        /\ Len(decoded) = written
        /\ \A i \in 1..written : SameDescription(decoded[i], i)

\* C10, as stated: no two features ever constructed have the same Id(), and the
\* Id() of a feature never changes.
C10_IdsUniqueAndFixed ==
    [][/\ \A n, m \in 1..Len(_id') : n # m => _id'[n] # _id'[m]
       /\ \A n \in Features : _id'[n] = _id[n]]_vars

\* C11, as stated: in a graph with mirrored edges, once the caller holds no reference
\* to any feature, every feature of the graph has been destroyed.
C11_AllDestroyedWithoutRoots ==
    (Mirrored /\ \A n \in Features : ~rootRefs[n]) => destroyed = Features

\* C12, as stated: a GetOutput() call either returns a vector of NumColumns()
\* entries, or fails and leaves the cache and the dirty flag as they were.
C12_OutputHasDeclaredWidth ==
    [][\A n \in Features :
          call' = <<"GetOutput", n>> =>
              \/ ret' # <<>> /\ Len(ret'[1]) = NumColumns(n)
              \/ ret' = <<>> /\ UNCHANGED <<_cachedValue, _isDirty>>]_vars

\* the greatest of a non-empty set of numbers
Greatest(S) == CHOOSE x \in S : \A y \in S : y <= x

\* C13: a call of WarmupTime() on a feature of a class that keeps the base method
\* returns 0 when the feature has no inputs and otherwise the greatest WarmupTime()
\* of its inputs, and changes nothing.
C13_WarmupIsMaxOverInputs ==
    [][\A n \in Features :
          (call' = <<"WarmupTime", n>> /\ WarmupOverride(_class[n]) = <<>>) =>
              /\ ret' = <<IF InputsOf(n) = {} THEN 0
                          ELSE Greatest({VirtualWarmupTime(m) : m \in InputsOf(n)})>>
              /\ UNCHANGED programVars]_vars

\* WarmupTime() has returned 2 on a base-class feature whose first input takes 2
\* frames and whose second takes 1
C13_GreaterInputFirst ==
    \E n \in Features :
        /\ call = <<"WarmupTime", n>>
        /\ WarmupOverride(_class[n]) = <<>>
        /\ Len(_inputFeatures[n]) = 2
        /\ VirtualWarmupTime(_inputFeatures[n][1]) = 2
        /\ VirtualWarmupTime(_inputFeatures[n][2]) = 1
        /\ ret = <<2>>

\* the features below n along input 0: the first input of n, its first input, ...
RECURSIVE FirstInputChain(_)
FirstInputChain(n) ==
    IF Len(_inputFeatures[n]) = 0 THEN <<>>
    ELSE <<_inputFeatures[n][1]>> \o FirstInputChain(_inputFeatures[n][1])

\* the first input feature on that chain, <<>> when it has none
FirstSentinel(n) ==
    LET chain == FirstInputChain(n)
        at == {k \in 1..Len(chain) : IsInputFeature(chain[k])}
    IN IF at = {} THEN <<>>
       ELSE <<chain[CHOOSE k \in at : \A j \in at : k <= j]>>

C15_DescriptionOrder ==
    [][/\ call'[1] = "Feature" => _inputFeatures'[call'[2][1]] = call'[2][2]
       /\ \A n, f \in Features :
             call' = <<"AddInputFeature", <<n, f>>>> =>
                 _inputFeatures'[n] = Append(_inputFeatures[n], f)
       /\ \A n \in Features :
             call' = <<"GetDescription", n>> =>
                 LET tokens == ret'[1]
                     k == Len(_inputFeatures[n])
                 IN /\ Len(tokens) = 2 + k + Len(AddToDescription(n))
                    /\ tokens[1] = _id[n]
                    /\ tokens[2] = _class[n]
                    /\ \A i \in 0..(k - 1) : tokens[i + 3] = _id[_inputFeatures[n][i + 1]]
                    /\ SubSeq(tokens, k + 3, Len(tokens)) = AddToDescription(n)
                    /\ UNCHANGED programVars]_vars

\* GetDescription() has returned the five tokens of a feature of the class with a
\* field and two inputs that differ
C15_TwoInputsAndField ==
    \E n \in Features :
        /\ call = <<"GetDescription", n>>
        /\ _class[n] = <<"D">>
        /\ Len(_inputFeatures[n]) = 2
        /\ _inputFeatures[n][1] # _inputFeatures[n][2]
        /\ ret = <<<<_id[n], <<"D">>, _id[_inputFeatures[n][1]],
                     _id[_inputFeatures[n][2]], <<"8">>>>>>

\* C16: HasOutput() returns the negation of the dirty flag; SetDirtyFlag(false) on a
\* feature that was never computed leaves it with HasOutput() true and an empty
\* cache; and GetOutput() on a clean feature whose cache is empty invokes the
\* compute step.
C16_HasOutputIsNotDirty ==
    [][\A n \in Features :
          /\ call' = <<"HasOutput", n>> => ret' = <<~_isDirty[n]>> /\ UNCHANGED programVars
          /\ (call' = <<"SetDirtyFlag(false)", n>> /\ served[n] = Never) =>
                 HasOutput(n)' /\ _cachedValue'[n] = <<>>
          /\ (call' = <<"GetOutput", n>> /\ ~_isDirty[n] /\ _cachedValue[n] = <<>>) =>
                 computeCalls' = 1]_vars

\* HasOutput() has returned true on a feature that was never computed
C16_OutputClaimedOnEmptyCache ==
    \E n \in Features :
        /\ call = <<"HasOutput", n>>
        /\ served[n] = Never
        /\ _cachedValue[n] = <<>>
        /\ ret = <<TRUE>>

\* C17: AddInputFeature only appends to the inputs of its feature, AddDependent only
\* appends to the dependents of its feature, and the constructor given inputs
\* touches no list of another feature and starts with no dependents; none of them
\* changes the dirty flag or the cached value of a feature there was.
C17_ConnectingIsNotPaired ==
    [][/\ call'[1] = "AddInputFeature" =>
             /\ _inputFeatures' =
                    [_inputFeatures EXCEPT ![call'[2][1]] = Append(@, call'[2][2])]
             /\ UNCHANGED <<_dependents, _isDirty, _cachedValue>>
       /\ call'[1] = "AddDependent" =>
             /\ _dependents' = [_dependents EXCEPT ![call'[2][1]] = Append(@, call'[2][2])]
             /\ UNCHANGED <<_inputFeatures, _isDirty, _cachedValue>>
       /\ call'[1] = "Feature" =>
             /\ _dependents' = Append(_dependents, <<>>)
             /\ _inputFeatures' = Append(_inputFeatures, call'[2][2])
             /\ \A m \in Features :
                   _isDirty'[m] = _isDirty[m] /\ _cachedValue'[m] = _cachedValue[m]]_vars

\* AddInputFeature has given a feature an input that is clean, holds a value and
\* has no dependent
C17_InputWithoutDependent ==
    \E n, f \in Features :
        /\ call = <<"AddInputFeature", <<n, f>>>>
        /\ f \in InputsOf(n)
        /\ DependentsOf(f) = {}
        /\ ~_isDirty[f]
        /\ _cachedValue[f] # <<>>

\* a tag, bare or with whitespace before or after it
Padded(tag) == {tag, <<" ">> \o tag, tag \o <<"\t">>, <<" ">> \o tag \o <<"\t">>}

\* C19: FromDescription on a description whose type token is a tag, bare or padded
\* with whitespace, under which a function is registered invokes that function,
\* once, with the description as it was given and the caller's feature map, and
\* hands back what the function does: the feature it made, or its failure.
C19_TrimmedTypeLookup ==
    [][\A description \in RegistryDescriptions, tag \in RegistryTags :
          /\ call' = <<"FromDescription", description>>
          /\ description[2] \in Padded(tag)
          /\ tag \in DOMAIN _createTypeMap
          /\ _createTypeMap[tag] # NullFunction
          => /\ invoked' = <<[fn |-> _createTypeMap[tag],
                              description |-> description,
                              map |-> deserializedFeatureMap]>>
             /\ IF Unresolved(description, deserializedFeatureMap) = {}
                THEN /\ thrown' = <<>>
                     /\ ret' = <<Len(_id) + 1>>
                     /\ _class'[Len(_id) + 1] = _createTypeMap[tag]
                     /\ _id'[Len(_id) + 1] = description[1]
                ELSE /\ thrown' # <<>>
                     /\ ret' = <<>>
                     /\ _id' = _id]_vars

\* a description whose type token is " T\t" has been decoded by the function
\* registered under "T", with a function registered under "U" as well
C19_PaddedTagDecoded ==
    /\ call # <<>> /\ call[1] = "FromDescription"
    /\ call[2][2] = <<" ", "T", "\t">>
    /\ Len(invoked) = 1
    /\ invoked[1].fn = _createTypeMap[<<"T">>]
    /\ <<"U">> \in DOMAIN _createTypeMap
    /\ _createTypeMap[<<"U">>] # NullFunction
    /\ _createTypeMap[<<"U">>] # _createTypeMap[<<"T">>]
    /\ thrown = <<>>

(***************************************************************************)
(* Properties of the mirrored graph.                                       *)
(***************************************************************************)
\* the first GetOutput() call on feature m in a trace
FirstCall(trace, m) ==
    trace[CHOOSE i \in 1..Len(trace) :
              trace[i][1] = m /\ \A j \in 1..(i - 1) : trace[j][1] # m]

\* C18: once SetDirtyFlag(true) or Reset() on a feature has reached feature m (the
\* feature itself or a transitive dependent), the next GetOutput() on m, called by
\* the caller or by the ComputeOutput() of a dependent, invokes ComputeOutput() of m,
\* whatever calls were made on other features since (SetDirtyFlag(false) on m itself
\* is the caller declaring the cached value valid, and ends the obligation).
C18_InvalidationNotLost ==
    [][\A n, m \in Features :
          (call' = <<"GetOutput", n>> /\ served[m] = Stale /\ m \in Called(ret'[2])) =>
              FirstCall(ret'[2], m)[2] = "computed"]_vars

\* GetOutput() on a feature has recomputed the feature and its input, both of them
\* reached by an invalidation since they were last computed
C18_StalePairRecomputed ==
    \E n, m \in Features :
        /\ call = <<"GetOutput", m>>
        /\ n \in InputsOf(m)
        /\ {n, m} \subseteq ret[3]
        /\ computeCalls = 2

\* the transitive inputs of the features of S
RECURSIVE GrowInputs(_)
GrowInputs(S) == LET T == S \cup UNION {InputsOf(m) : m \in S}
                 IN IF T = S THEN S ELSE GrowInputs(T)

\* C20: in a mirrored graph whose ComputeOutput() overrides read their inputs, after
\* any GetOutput(), SetDirtyFlag(true) and Reset() calls, every transitive input of a
\* clean feature is clean.
C20_CleanAboveCleanInputs ==
    \A n \in Features :
        ~_isDirty[n] => \A m \in GrowInputs(InputsOf(n)) : ~_isDirty[m]

\* an invalidation has left a feature dirty and a feature with an input clean
C20_CleanBelowDirty ==
    /\ call # <<>> /\ call[1] \in {"SetDirtyFlag(true)", "Reset"}
    /\ \E n, m \in Features :
          /\ ~_isDirty[n]
          /\ InputsOf(n) # {}
          /\ _isDirty[m]

\* no feature is its own transitive input or its own transitive dependent
Acyclic ==
    \A n \in Features :
        n \notin GrowInputs(InputsOf(n)) /\ n \notin Grow(DependentsOf(n))

\* C21: on a graph whose inputs and dependents relations are acyclic every call of
\* Reset(), SetDirtyFlag(true), WarmupTime() and FindInputFeature() returns; a call of
\* SetDirtyFlag(true) or Reset() on a feature that is its own transitive dependent
\* never returns.
C21_ReturnsIffNoCycle ==
    [][/\ (/\ call'[1] \in {"Reset", "SetDirtyFlag", "WarmupTime", "FindInputFeature"}
           /\ Acyclic) => pc' = "run"
       /\ (/\ call'[1] \in {"Reset", "SetDirtyFlag"}
           /\ call'[2] \in Grow(DependentsOf(call'[2]))) => pc' = "diverged"]_vars

\* SetDirtyFlag(true) was called on a feature that AddDependent made its own dependent
C21_SelfDependentDiverged ==
    /\ pc = "diverged"
    /\ \E n \in Features : call = <<"SetDirtyFlag", n>> /\ n \in DependentsOf(n)

\* C22: the assertion of SetDirtyFlag holds in every state the constructors,
\* AddInputFeature and AddDependent lead to: no SetDirtyFlag(true) and no Reset()
\* comes to a null entry of a _dependents list.
C22_NoNullDependentMet == pc \notin {"aborted", "undefined"}

\* the strings inserted since the last std::endl
CurrentLine(buffer) ==
    LET ends == {i \in 1..Len(buffer) : buffer[i] = endl}
        last == IF ends = {} THEN 0 ELSE CHOOSE i \in ends : \A j \in ends : j <= i
    IN SubSeq(buffer, last + 1, Len(buffer))

Tabs(k) == [i \in 1..k |-> _tabString]

\* The line the calls `calls` are to give, from call i on: the first Write of the
\* line is preceded by the indentation for the indent count at that Write and no
\* later Write is; a WriteRaw is preceded by as many tab strings as its argument
\* asks for when rawIndents holds, and by none when it does not.
RECURSIVE LineOf(_, _, _, _)
LineOf(calls, i, indented, rawIndents) ==
    IF i > Len(calls) THEN <<>>
    ELSE LET c == calls[i]
         IN IF c.op = "Write"
            THEN (IF indented THEN <<>> ELSE Tabs(c.count)) \o <<c.value>>
                     \o LineOf(calls, i + 1, TRUE, rawIndents)
            ELSE (IF rawIndents THEN Tabs(c.count) ELSE <<>>) \o <<c.value>>
                     \o LineOf(calls, i + 1, indented, rawIndents)

\* C23, as amended: the indent count is never negative and DecreaseIndent at 0 leaves
\* it 0; after a WriteNewLine the indentation is emitted once, right before the
\* value of the first Write, for the indent count at that Write; besides, every
\* WriteRaw whose argument is positive emits that many tab strings before its value.
C23_IndentOnceBesidesRaw ==
    [][/\ _indentCount' >= 0
       /\ (call'[1] = "DecreaseIndent" /\ _indentCount = 0) => _indentCount' = 0
       /\ lineCalls'.begun =>
              CurrentLine(_buffer') = LineOf(lineCalls'.calls, 1, FALSE, TRUE)]_vars

\* after a WriteNewLine, a Write at indent count 1 and a second Write: the line
\* holds one tab string and the two values
C23_SecondWriteNotIndented ==
    /\ lineCalls.begun
    /\ Len(lineCalls.calls) = 2
    /\ \A i \in 1..2 : lineCalls.calls[i].op = "Write" /\ lineCalls.calls[i].count = 1
    /\ CurrentLine(_buffer) = <<_tabString, "a", "a">>

\* C23, as stated: the indent count is never negative and DecreaseIndent at 0 leaves
\* it 0; between two WriteNewLine calls tab strings are emitted at most once, right
\* before the value of the first Write, for the indent count at that Write.
C23_IndentOncePerLine ==
    [][/\ _indentCount' >= 0
       /\ (call'[1] = "DecreaseIndent" /\ _indentCount = 0) => _indentCount' = 0
       /\ lineCalls'.begun =>
              CurrentLine(_buffer') = LineOf(lineCalls'.calls, 1, FALSE, FALSE)]_vars

====
